---- MODULE Spec2Model ----
(***************************************************************************)
(* Model of the Python binding of POML (src/python/poml/api.py): the       *)
(* poml() call, the pydantic message model and the output-format          *)
(* converters (message_dict, dict, pydantic, openai_chat, langchain).      *)
(*                                                                         *)
(* Representation of Python values.  TLA+ has no isinstance, so a value    *)
(* whose Python type the code inspects carries its type as the name of     *)
(* its single field: a str is [str |-> s], a list is [list |-> seq], a     *)
(* dict used as a JSON object is [obj |-> seq of <<key, value>>] (Python   *)
(* dicts keep insertion order), a number is [num |-> n], None is           *)
(* [none |-> TRUE].  A JSON wire object with known keys (a message, a      *)
(* content part, a tool definition) is a record with those keys; a         *)
(* pydantic instance is a record with a cls field.  Keys of the runtime    *)
(* mapping are sequences of one-character strings, because the naming      *)
(* normalizer works on characters.                                         *)
(***************************************************************************)
EXTENDS Integers, Sequences, FiniteSets, TLC

VARIABLES
    process,        \* what the renderer did: returncode and output file
    chat,           \* the chat argument of the poml call(s)
    format,         \* the format argument of the last poml call
    return_result,  \* outcome of the last poml call: returned value or exception
    arg_name,       \* the argument of the naming normalizer, as characters
    snake,          \* what the naming normalizer returned for arg_name
    elements,              \* the ET.Element objects created by a Prompt's tags
    is_context_managed,    \* _is_context_managed of the handler of each element
    root_elements,         \* Prompt.root_elements
    current_parent_stack,  \* Prompt.current_parent_stack
    open_blocks,           \* the tag handlers whose with blocks are open, outermost first
    built,                 \* the root-level elements built with the Prompt so far
    prompt_call,           \* the Prompt or handler method called last
    prompt_arg,            \* the handler, tag name or content that call was given
    prompt_result,         \* outcome of that call: returned value or exception
    trace_enabled,         \* _trace_enabled
    weave_enabled,         \* _weave_enabled
    agentops_enabled,      \* _agentops_enabled
    mlflow_enabled,        \* _mlflow_enabled
    trace_dir,             \* _trace_dir
    trace_log,             \* _trace_log
    env_dir,               \* the environment variable POML_TRACE
    trace_files,           \* per directory: who rendered the trace files 1, 2, ...
    backend_log,           \* the calls of log_poml_call made by the most recent poml call
    pc,                    \* "idle", or "rendered": poml is between run() and its return
    call,                  \* the local variables of the poml call in progress
    temp_files,            \* the temporary files of poml that are open
    api_call,              \* the function of api.py called last
    api_arg,               \* the file suffix given to trace_artifact
    api_result,            \* what set_trace or trace_artifact returned
    alias_record,          \* position in trace_log of the record whose result is the
                           \* object the caller's return value was taken from, or 0
    own_prefix,            \* the trace prefix of this process's most recent traced render
    traced_calls,          \* outcome of each poml call started with tracing enabled
                           \* since the last clear_trace
    calls,                 \* poml calls of this process so far
    others                 \* renders of other processes so far

convVars == <<process, chat, format, return_result>>
normVars == <<arg_name, snake>>
promptVars == <<elements, is_context_managed, root_elements, current_parent_stack,
                open_blocks, built, prompt_call, prompt_arg, prompt_result>>
traceVars == <<trace_enabled, weave_enabled, agentops_enabled, mlflow_enabled,
               trace_dir, trace_log, env_dir, trace_files, backend_log,
               pc, call, temp_files, api_call, api_arg, api_result, alias_record,
               own_prefix, traced_calls,
               calls, others>>
vars == <<convVars, normVars, promptVars, traceVars>>

(***************************************************************************)
(* Bounds of the model.                                                    *)
(***************************************************************************)
MaxSize == 4    \* messages plus content parts of a rendered message list
MaxTexts == 2   \* messages of a rendered text-only message list
MaxTools == 2   \* tool definitions in a renderer result
MaxRuntime == 2 \* runtime parameters in a renderer result
MaxName == 4    \* characters of a key given to the naming normalizer
MaxElems == 2   \* elements created with one Prompt
MaxDepth == 2   \* with blocks of tags open at the same time
MaxText == 2    \* text() calls that add content to the elements of one Prompt
MaxCalls == 2   \* poml calls of the traced process
MaxOther == 1   \* renders of other processes into the trace directories
MaxRuns == 1    \* run directories created by set_trace(trace_dir=...)

(***************************************************************************)
(* Python values.                                                          *)
(***************************************************************************)
None == [none |-> TRUE]
Str(s) == [str |-> s]
List(l) == [list |-> l]
Obj(o) == [obj |-> o]
Num(n) == [num |-> n]

IsStr(x) == "str" \in DOMAIN x
IsList(x) == "list" \in DOMAIN x
IsObj(x) == "obj" \in DOMAIN x
IsNum(x) == "num" \in DOMAIN x
IsNone(x) == "none" \in DOMAIN x

\* an exception propagating out of a function
Raise(exc, msg) == [raise |-> exc, msg |-> msg]
IsRaise(x) == "raise" \in DOMAIN x

\* Python truthiness of an Optional str / list / dict value
Truthy(x) ==
    IF IsNone(x) THEN FALSE
    ELSE IF IsStr(x) THEN x.str # ""
    ELSE IF IsList(x) THEN x.list # <<>>
    ELSE IF IsObj(x) THEN x.obj # <<>>
    ELSE IF IsNum(x) THEN x.num # 0
    ELSE TRUE

\* sequences over S of length lo..hi
SeqsOf(S, lo, hi) == UNION {[1..n -> S] : n \in lo..hi}

RECURSIVE Join(_, _)
\* sep.join(strs)
Join(sep, strs) ==
    IF strs = <<>> THEN ""
    ELSE IF Len(strs) = 1 THEN strs[1]
    ELSE strs[1] \o sep \o Join(sep, Tail(strs))

RECURSIVE Cat(_)
\* the Python str made of the characters cs
Cat(cs) == IF cs = <<>> THEN "" ELSE Head(cs) \o Cat(Tail(cs))

RECURSIVE json_dumps(_)
RECURSIVE DumpsItems(_)
RECURSIVE DumpsMembers(_)
DumpsItems(l) ==
    IF l = <<>> THEN <<>> ELSE <<json_dumps(Head(l))>> \o DumpsItems(Tail(l))
DumpsMembers(o) ==
    IF o = <<>> THEN <<>>
    ELSE <<"\"" \o Head(o)[1] \o "\": " \o json_dumps(Head(o)[2])>> \o DumpsMembers(Tail(o))
\* json.dumps with the default separators
json_dumps(v) ==
    IF IsNone(v) THEN "null"
    ELSE IF IsStr(v) THEN "\"" \o v.str \o "\""
    ELSE IF IsNum(v) THEN ToString(v.num)
    ELSE IF IsList(v) THEN "[" \o Join(", ", DumpsItems(v.list)) \o "]"
    ELSE "{" \o Join(", ", DumpsMembers(v.obj)) \o "}"

(***************************************************************************)
(* The wire format of the renderer and the pydantic message model.         *)
(***************************************************************************)
TOOLREQUEST == "application/vnd.poml.toolrequest"
TOOLRESPONSE == "application/vnd.poml.toolresponse"

Speaker == {"human", "ai", "system", "tool"}

\* ContentMultiMedia(**part): alt defaults to None
ContentMultiMedia(part) ==
    [cls |-> "ContentMultiMedia", type |-> part.type, base64 |-> part.base64,
     alt |-> IF "alt" \in DOMAIN part THEN Str(part.alt) ELSE None]

IsMultiMedia(x) == "cls" \in DOMAIN x /\ x.cls = "ContentMultiMedia"
IsToolRequest(x) == "cls" \in DOMAIN x /\ x.cls = "ContentMultiMediaToolRequest"
IsToolResponse(x) == "cls" \in DOMAIN x /\ x.cls = "ContentMultiMediaToolResponse"

\* validation of one element of a tool response's content list
ResponseItem(p) == IF IsStr(p) THEN p ELSE ContentMultiMedia(p)

ContentMultiMediaToolRequest(part) ==
    [cls |-> "ContentMultiMediaToolRequest", type |-> part.type, id |-> part.id,
     name |-> part.name, content |-> part.content]

ContentMultiMediaToolResponse(part) ==
    [cls |-> "ContentMultiMediaToolResponse", type |-> part.type, id |-> part.id,
     name |-> part.name,
     content |-> IF IsStr(part.content) THEN part.content
                 ELSE List([i \in 1..Len(part.content.list) |->
                              ResponseItem(part.content.list[i])])]

\* validation of one element of a message's content list against the union
\* str | ContentMultiMedia | ContentMultiMediaToolRequest | ContentMultiMediaToolResponse
ContentPart(p) ==
    IF IsStr(p) THEN p
    ELSE IF "base64" \in DOMAIN p THEN ContentMultiMedia(p)
    ELSE IF p.type = TOOLREQUEST THEN ContentMultiMediaToolRequest(p)
    ELSE ContentMultiMediaToolResponse(p)

RichContent(c) ==
    IF IsStr(c) THEN c
    ELSE List([i \in 1..Len(c.list) |-> ContentPart(c.list[i])])

\* variant: the speaker is not validated
PomlMessageAnySpeaker(speaker, content) ==
    [cls |-> "PomlMessage", speaker |-> speaker, content |-> RichContent(content)]

\* PomlMessage(speaker=..., content=...): the speaker must be one of the literals
PomlMessage(speaker, content) ==
    IF speaker \notin Speaker
    THEN Raise("ValidationError", "speaker")
    ELSE [cls |-> "PomlMessage", speaker |-> speaker, content |-> RichContent(content)]

\* PomlFrame(messages=..., output_schema=..., tools=..., runtime=...)
PomlFrame(messages, output_schema, tools, runtime) ==
    [cls |-> "PomlFrame", messages |-> messages, output_schema |-> output_schema,
     tools |-> tools, runtime |-> runtime]

(***************************************************************************)
(* _rich_content_to_text: a tool response's content as plain text.  The    *)
(* content was validated as str | List[str | ContentMultiMedia], so the    *)
(* final else of the loop (an unexpected part) cannot be taken.            *)
(***************************************************************************)
RichTextPart(part) ==
    IF IsStr(part) THEN part.str
    ELSE IF Truthy(part.alt) THEN "[" \o part.type \o ": " \o part.alt.str \o "]"
    ELSE "[" \o part.type \o "]"

\* variant: the parts are joined with a single newline
RichContentJoinedByNewline(content) ==
    IF IsStr(content) THEN content.str
    ELSE Join("\n", [i \in 1..Len(content.list) |-> RichTextPart(content.list[i])])

rich_content_to_text(content) ==
    IF IsStr(content) THEN content.str
    ELSE Join("\n\n", [i \in 1..Len(content.list) |-> RichTextPart(content.list[i])])

\* a Python dict with string keys is a function on its keys; d1 @@ d2 keeps d1's
\* entries, so an update of d by u is (u @@ d)
EmptyDict == [k \in {} |-> None]
Update(d, u) == u @@ d

(***************************************************************************)
(* _poml_response_to_openai_chat                                           *)
(***************************************************************************)
speaker_to_role ==
    [human |-> "user", ai |-> "assistant", system |-> "system", tool |-> "tool"]

\* variant: the tool's name in place of the call id
OpenAIToolMessageByName(content_part) ==
    [role |-> "tool",
     content |-> Str(rich_content_to_text(content_part.content)),
     tool_call_id |-> content_part.name]

\* the message appended for one tool response part
OpenAIToolMessage(content_part) ==
    [role |-> "tool",
     content |-> Str(rich_content_to_text(content_part.content)),
     tool_call_id |-> content_part.id]

\* the tool branch over a list content: one message per tool response part,
\* every other part is passed over
RECURSIVE OpenAIToolParts(_)
OpenAIToolParts(parts) ==
    IF parts = <<>> THEN <<>>
    ELSE LET content_part == Head(parts) IN
         (IF IsToolResponse(content_part)
          THEN <<OpenAIToolMessage(content_part)>>
          ELSE <<>>) \o OpenAIToolParts(Tail(parts))

\* variant: string arguments are serialized once more
OpenAIToolCallAlwaysDumps(content_part) ==
    [id |-> content_part.id, type |-> "function",
     function |-> [name |-> content_part.name,
                   arguments |-> json_dumps(content_part.content)]]

OpenAIToolCall(content_part) ==
    [id |-> content_part.id, type |-> "function",
     function |-> [name |-> content_part.name,
                   arguments |-> IF ~IsStr(content_part.content)
                                 THEN json_dumps(content_part.content)
                                 ELSE content_part.content.str]]

\* the loop over the parts of a non-tool message; acc holds text_image_contents
\* and tool_calls; the first offending part raises
RECURSIVE OpenAIParts(_, _, _, _)
OpenAIParts(parts, role, speaker, acc) ==
    IF parts = <<>> THEN acc
    ELSE LET content_part == Head(parts) IN
         IF IsStr(content_part)
         THEN OpenAIParts(Tail(parts), role, speaker,
                [acc EXCEPT !.text_image_contents =
                    Append(@, [type |-> "text", text |-> content_part.str])])
         ELSE IF IsMultiMedia(content_part)
         THEN OpenAIParts(Tail(parts), role, speaker,
                [acc EXCEPT !.text_image_contents =
                    Append(@, [type |-> "image_url",
                               image_url |-> [url |-> "data:" \o content_part.type
                                                \o ";base64," \o content_part.base64]])])
         ELSE IF IsToolRequest(content_part)
         THEN IF role # "assistant"
              THEN Raise("ValueError", "Tool request found in non-assistant message")
              ELSE OpenAIParts(Tail(parts), role, speaker,
                     [acc EXCEPT !.tool_calls = Append(@, OpenAIToolCall(content_part))])
         ELSE IF IsToolResponse(content_part)
         THEN Raise("ValueError", "Tool response found in non-tool message")
         ELSE Raise("ValueError", "Unexpected content part type")

\* variant: a single text part is not collapsed to a bare string
OpenAIBuildNoCollapse(role, acc) ==
    LET m0 == [role |-> role]
        m1 == IF acc.text_image_contents # <<>>
              THEN Update(m0, [content |-> List(acc.text_image_contents)])
              ELSE m0
        message == IF acc.tool_calls # <<>>
                   THEN Update(m1, [tool_calls |-> acc.tool_calls])
                   ELSE m1
    IN IF "content" \in DOMAIN message \/ "tool_calls" \in DOMAIN message
       THEN <<message>> ELSE <<>>

\* variant: a message without content and tool_calls is appended too
OpenAIBuildKeepEmpty(role, acc) ==
    LET m0 == [role |-> role]
        m1 == IF acc.text_image_contents # <<>>
              THEN IF Len(acc.text_image_contents) = 1
                      /\ acc.text_image_contents[1].type = "text"
                   THEN Update(m0, [content |-> Str(acc.text_image_contents[1].text)])
                   ELSE Update(m0, [content |-> List(acc.text_image_contents)])
              ELSE m0
    IN <<IF acc.tool_calls # <<>>
         THEN Update(m1, [tool_calls |-> acc.tool_calls])
         ELSE m1>>

\* the message built from the collected parts: a sequence with the message, or
\* the empty sequence when it has neither content nor tool_calls
OpenAIBuild(role, acc) ==
    LET text_image_contents == acc.text_image_contents
        tool_calls == acc.tool_calls
        m0 == [role |-> role]
        m1 == IF text_image_contents # <<>>
              THEN IF Len(text_image_contents) = 1 /\ text_image_contents[1].type = "text"
                   THEN Update(m0, [content |-> Str(text_image_contents[1].text)])
                   ELSE Update(m0, [content |-> List(text_image_contents)])
              ELSE m0
        message == IF tool_calls # <<>>
                   THEN Update(m1, [tool_calls |-> tool_calls])
                   ELSE m1
    IN IF "content" \in DOMAIN message \/ "tool_calls" \in DOMAIN message
       THEN <<message>> ELSE <<>>

\* one iteration of the loop over messages: the list of the messages appended
\* to openai_messages, or the exception raised
OpenAIMessage(msg) ==
    IF msg.speaker \notin DOMAIN speaker_to_role
    THEN Raise("ValueError", "Unknown speaker")
    ELSE LET role == speaker_to_role[msg.speaker] IN
         IF msg.speaker = "tool"
         THEN IF IsList(msg.content) THEN List(OpenAIToolParts(msg.content.list))
              ELSE List(<<[role |-> "tool", content |-> msg.content]>>)
         ELSE IF IsStr(msg.content)
         THEN List(<<[role |-> role, content |-> msg.content]>>)
         ELSE LET acc == OpenAIParts(msg.content.list, role, msg.speaker,
                                     [text_image_contents |-> <<>>, tool_calls |-> <<>>])
              IN IF IsRaise(acc) THEN acc ELSE List(OpenAIBuild(role, acc))

RECURSIVE poml_response_to_openai_chat(_)
poml_response_to_openai_chat(messages) ==
    IF messages = <<>> THEN List(<<>>)
    ELSE LET first == OpenAIMessage(Head(messages)) IN
         IF IsRaise(first) THEN first
         ELSE LET rest == poml_response_to_openai_chat(Tail(messages)) IN
              IF IsRaise(rest) THEN rest ELSE List(first.list \o rest.list)

(***************************************************************************)
(* _poml_response_to_langchain                                             *)
(***************************************************************************)
\* variant: the arguments are stringified as in the OpenAI format
LangchainToolCallStringified(content_part) ==
    [id |-> content_part.id, name |-> content_part.name,
     args |-> Str(json_dumps(content_part.content))]

LangchainToolCall(content_part) ==
    [id |-> content_part.id, name |-> content_part.name, args |-> content_part.content]

LangchainToolMessage(content_part) ==
    [type |-> "tool",
     data |-> [content |-> Str(rich_content_to_text(content_part.content)),
               tool_call_id |-> content_part.id,
               name |-> content_part.name]]

\* the loop over the parts of a message; acc holds content_parts, tool_calls and
\* the tool messages appended to langchain_messages during the loop
RECURSIVE LangchainParts(_, _)
LangchainParts(parts, acc) ==
    IF parts = <<>> THEN acc
    ELSE LET content_part == Head(parts) IN
         IF IsStr(content_part)
         THEN LangchainParts(Tail(parts),
                [acc EXCEPT !.content_parts =
                    Append(@, [type |-> "text", text |-> content_part.str])])
         ELSE IF IsMultiMedia(content_part)
         THEN LangchainParts(Tail(parts),
                [acc EXCEPT !.content_parts =
                    Append(@, [type |-> "image", source_type |-> "base64",
                               data |-> content_part.base64,
                               mime_type |-> content_part.type])])
         ELSE IF IsToolRequest(content_part)
         THEN LangchainParts(Tail(parts),
                [acc EXCEPT !.tool_calls = Append(@, LangchainToolCall(content_part))])
         ELSE IF IsToolResponse(content_part)
         THEN LangchainParts(Tail(parts),
                [acc EXCEPT !.appended = Append(@, LangchainToolMessage(content_part))])
         ELSE Raise("ValueError", "Unexpected content part")

LangchainBuild(speaker, acc) ==
    LET content_parts == acc.content_parts
        tool_calls == acc.tool_calls
        d1 == IF content_parts # <<>>
              THEN IF Len(content_parts) = 1 /\ content_parts[1].type = "text"
                   THEN Update(EmptyDict, [content |-> Str(content_parts[1].text)])
                   ELSE Update(EmptyDict, [content |-> List(content_parts)])
              ELSE EmptyDict
        message_data == IF tool_calls # <<>>
                        THEN Update(d1, [tool_calls |-> tool_calls])
                        ELSE d1
    IN IF DOMAIN message_data # {}
       THEN <<[type |-> speaker, data |-> message_data]>> ELSE <<>>

\* one iteration of the loop over messages
LangchainMessage(msg) ==
    IF IsStr(msg.content)
    THEN List(<<[type |-> msg.speaker, data |-> [content |-> msg.content]]>>)
    ELSE LET acc == LangchainParts(msg.content.list,
                      [content_parts |-> <<>>, tool_calls |-> <<>>, appended |-> <<>>])
         IN IF IsRaise(acc) THEN acc
            ELSE List(acc.appended \o LangchainBuild(msg.speaker, acc))

\* variant: the entries of later messages come first
RECURSIVE LangchainMessagesReversed(_)
LangchainMessagesReversed(messages) ==
    IF messages = <<>> THEN List(<<>>)
    ELSE LET first == LangchainMessage(Head(messages)) IN
         IF IsRaise(first) THEN first
         ELSE LET rest == LangchainMessagesReversed(Tail(messages)) IN
              IF IsRaise(rest) THEN rest ELSE List(rest.list \o first.list)

RECURSIVE poml_response_to_langchain(_)
poml_response_to_langchain(messages) ==
    IF messages = <<>> THEN List(<<>>)
    ELSE LET first == LangchainMessage(Head(messages)) IN
         IF IsRaise(first) THEN first
         ELSE LET rest == poml_response_to_langchain(Tail(messages)) IN
              IF IsRaise(rest) THEN rest ELSE List(first.list \o rest.list)

(***************************************************************************)
(* _camel_case_to_snake_case, on sequences of characters.                  *)
(***************************************************************************)
UpperChars == <<"A", "B", "C", "D", "E", "F", "G", "H", "I", "J", "K", "L", "M",
                "N", "O", "P", "Q", "R", "S", "T", "U", "V", "W", "X", "Y", "Z">>
LowerChars == <<"a", "b", "c", "d", "e", "f", "g", "h", "i", "j", "k", "l", "m",
                "n", "o", "p", "q", "r", "s", "t", "u", "v", "w", "x", "y", "z">>
Digits == {"0", "1", "2", "3", "4", "5", "6", "7", "8", "9"}

IsUpper(c) == \E i \in 1..26 : UpperChars[i] = c
IsLower(c) == \E i \in 1..26 : LowerChars[i] = c
IsLowerOrDigit(c) == IsLower(c) \/ c \in Digits

\* str.lower() of one character
LowerChar(c) ==
    IF IsUpper(c) THEN LowerChars[CHOOSE i \in 1..26 : UpperChars[i] = c] ELSE c

\* end (exclusive) of the run of lower-case letters that starts at i
RECURSIVE LowerRunEnd(_, _)
LowerRunEnd(name, i) ==
    IF i <= Len(name) /\ IsLower(name[i]) THEN LowerRunEnd(name, i + 1) ELSE i

\* re.sub('(.)([A-Z][a-z]+)', r'\1_\2', name), scanning from position i
RECURSIVE SubWord(_, _)
SubWord(name, i) ==
    IF i > Len(name) THEN <<>>
    ELSE IF /\ i + 2 <= Len(name)
            /\ name[i] # "\n"
            /\ IsUpper(name[i + 1])
            /\ IsLower(name[i + 2])
    THEN LET j == LowerRunEnd(name, i + 2) IN
         <<name[i], "_">> \o SubSeq(name, i + 1, j - 1) \o SubWord(name, j)
    ELSE <<name[i]>> \o SubWord(name, i + 1)

\* re.sub('([a-z0-9])([A-Z])', r'\1_\2', s1), scanning from position i
RECURSIVE SubUpper(_, _)
SubUpper(s1, i) ==
    IF i > Len(s1) THEN <<>>
    ELSE IF i + 1 <= Len(s1) /\ IsLowerOrDigit(s1[i]) /\ IsUpper(s1[i + 1])
    THEN <<s1[i], "_", s1[i + 1]>> \o SubUpper(s1, i + 2)
    ELSE <<s1[i]>> \o SubUpper(s1, i + 1)

\* variant: the result is not lower-cased
SnakeCaseKeepsCase(name) ==
    LET s1 == SubWord(name, 1) IN SubUpper(s1, 1)

camel_case_to_snake_case(name) ==
    LET s1 == SubWord(name, 1)
        s2 == SubUpper(s1, 1)
    IN [i \in 1..Len(s2) |-> LowerChar(s2[i])]

(***************************************************************************)
(* poml(): from the renderer's exit to the returned value.                 *)
(***************************************************************************)
\* the text of the output file is known by the JSON value it parses to
Text(v) == [json |-> v]
json_loads(text) == text.json

\* dict.get(key, default) on a dict with string keys
Get(d, key, default) == IF key \in DOMAIN d THEN d[key] ELSE default

\* [PomlMessage(**item) for item in messages_data]: the first invalid item raises
RECURSIVE PydanticMessages(_)
PydanticMessages(items) ==
    IF items = <<>> THEN List(<<>>)
    ELSE LET first == PomlMessage(Head(items).speaker, Head(items).content) IN
         IF IsRaise(first) THEN first
         ELSE LET rest == PydanticMessages(Tail(items)) IN
              IF IsRaise(rest) THEN rest ELSE List(<<first>> \o rest.list)

OpenAITool(tool) ==
    [type |-> "function",
     function |-> [name |-> Get(tool, "name", Str("")),
                   description |-> Get(tool, "description", Str("")),
                   parameters |-> Get(tool, "parameters", Obj(<<>>))]]

\* {_camel_case_to_snake_case(k): v for k, v in runtime.items()}: a later item
\* replaces an earlier one with the same converted key
RECURSIVE SnakeCaseItems(_)
SnakeCaseItems(items) ==
    IF items = <<>> THEN EmptyDict
    ELSE LET last == items[Len(items)] IN
         Update(SnakeCaseItems(SubSeq(items, 1, Len(items) - 1)),
                Cat(camel_case_to_snake_case(last[1])) :> last[2])

\* the openai_chat branch
OpenAIResult(pydantic_messages, poml_frame) ==
    LET openai_messages == poml_response_to_openai_chat(pydantic_messages.list) IN
    IF IsRaise(openai_messages) THEN openai_messages
    ELSE LET r0 == [messages |-> openai_messages]
             r1 == IF Truthy(poml_frame.tools)
                   THEN Update(r0, [tools |-> List([i \in 1..Len(poml_frame.tools.list) |->
                                                     OpenAITool(poml_frame.tools.list[i])])])
                   ELSE r0
             r2 == IF Truthy(poml_frame.output_schema)
                   THEN Update(r1, [response_format |->
                                      [type |-> "json_schema",
                                       json_schema |-> [name |-> "schema",
                                                        schema |-> poml_frame.output_schema,
                                                        strict |-> TRUE]]])
                   ELSE r1
             r3 == IF Truthy(poml_frame.runtime)
                   THEN Update(r2, SnakeCaseItems(poml_frame.runtime.obj))
                   ELSE r2
         IN [returned |-> r3]

\* variant: the other fields of the renderer's result are not copied
LangchainResultMessagesOnly(pydantic_messages, cli_result) ==
    LET messages_data == poml_response_to_langchain(pydantic_messages.list) IN
    IF IsRaise(messages_data) THEN messages_data
    ELSE [returned |-> [messages |-> messages_data]]

\* the langchain branch
LangchainResult(pydantic_messages, cli_result) ==
    LET messages_data == poml_response_to_langchain(pydantic_messages.list) IN
    IF IsRaise(messages_data) THEN messages_data
    ELSE [returned |->
            Update([messages |-> messages_data],
                   [k \in DOMAIN cli_result \ {"messages"} |-> cli_result[k]])]

\* variant: only the messages of the renderer's result are kept
CliResultMessagesOnly(parsed_result) ==
    IF "messages" \in DOMAIN parsed_result
    THEN [messages |-> parsed_result.messages]
    ELSE [messages |-> parsed_result]

\* cli_result: the renderer's result itself when it is a dict with messages,
\* and the legacy bare result wrapped as {"messages": ...} otherwise
CliResult(parsed_result) ==
    IF "messages" \in DOMAIN parsed_result THEN parsed_result
    ELSE [messages |-> parsed_result]

\* variant: the output schema is read from the key output_schema
PomlFrameOfFieldNames(cli_result, chat_arg) ==
    LET messages_data == cli_result.messages
        pydantic_messages ==
            IF chat_arg THEN PydanticMessages(messages_data.list)
            ELSE LET m == PomlMessage("human", messages_data) IN
                 IF IsRaise(m) THEN m ELSE List(<<m>>)
    IN IF IsRaise(pydantic_messages) THEN pydantic_messages
       ELSE PomlFrame(pydantic_messages,
                      Get(cli_result, "output_schema", None),
                      Get(cli_result, "tools", None),
                      Get(cli_result, "runtime", None))

\* the message models and the PomlFrame built from cli_result, or the
\* validation error of the first invalid message
PomlFrameOf(cli_result, chat_arg) ==
    LET messages_data == cli_result.messages
        pydantic_messages ==
            IF chat_arg THEN PydanticMessages(messages_data.list)
            ELSE LET m == PomlMessage("human", messages_data) IN
                 IF IsRaise(m) THEN m ELSE List(<<m>>)
    IN IF IsRaise(pydantic_messages) THEN pydantic_messages
       ELSE PomlFrame(pydantic_messages,
                      Get(cli_result, "schema", None),
                      Get(cli_result, "tools", None),
                      Get(cli_result, "runtime", None))

\* the outcome of poml(markup, chat=chat, format=format) once the renderer has
\* exited as proc: [returned |-> value] or the exception raised
poml(proc, chat_arg, format_arg) ==
    IF proc.returncode # 0
    THEN Raise("RuntimeError", "POML command failed")
    ELSE
    LET result == proc.output IN
    IF format_arg = "raw" THEN [returned |-> result]
    ELSE
    LET parsed_result == json_loads(result)
        cli_result == CliResult(parsed_result)
        messages_data == cli_result.messages
    IN
    IF format_arg = "message_dict" THEN [returned |-> messages_data]
    ELSE IF format_arg = "dict" THEN [returned |-> cli_result]
    ELSE
    LET poml_frame == PomlFrameOf(cli_result, chat_arg) IN
    IF IsRaise(poml_frame) THEN poml_frame
    ELSE
    LET pydantic_messages == poml_frame.messages IN
    IF format_arg = "pydantic" THEN [returned |-> poml_frame]
    ELSE IF format_arg = "openai_chat" THEN OpenAIResult(pydantic_messages, poml_frame)
    ELSE IF format_arg = "langchain" THEN LangchainResult(pydantic_messages, cli_result)
    ELSE Raise("ValueError", "Unknown output format")

(***************************************************************************)
(* The renderer results the model draws from.                              *)
(***************************************************************************)
TextPart == Str("Image ")
ImagePart == [type |-> "image/png", base64 |-> "abc", alt |-> "tiny"]
ImageNoAlt == [type |-> "image/jpeg", base64 |-> "xyz"]
ImageEmptyAlt == [type |-> "image/gif", base64 |-> "uvw", alt |-> ""]
RequestObj ==
    [type |-> TOOLREQUEST, id |-> "call_123", name |-> "search",
     content |-> Obj(<< <<"query", Str("Python")>> >>)]
RequestStr ==
    [type |-> TOOLREQUEST, id |-> "call_456", name |-> "calculate",
     content |-> Str("2 + 2")]
ResponseStr ==
    [type |-> TOOLRESPONSE, id |-> "call_123", name |-> "search",
     content |-> Str("Python is a language.")]
ResponseRich ==
    [type |-> TOOLRESPONSE, id |-> "call_456", name |-> "calculate",
     content |-> List(<<Str("4"), ImagePart, ImageNoAlt, ImageEmptyAlt>>)]

Parts == {TextPart, ImagePart, RequestObj, RequestStr, ResponseStr, ResponseRich}

\* messages without content parts: plain strings of a known speaker, of the tool
\* speaker and of an unknown speaker, and an empty part list
PartlessMessages ==
    {[speaker |-> "human", content |-> Str("Hello")],
     [speaker |-> "tool", content |-> Str("Hello")],
     [speaker |-> "narrator", content |-> Str("Hello")],
     [speaker |-> "human", content |-> List(<<>>)]}

\* the messages with exactly n content parts
WireMessages(n) ==
    IF n = 0 THEN PartlessMessages
    ELSE {[speaker |-> sp, content |-> List(l)] :
            sp \in {"human", "ai", "tool"}, l \in [1..n -> Parts]}

\* the message lists in which messages plus content parts are at most budget
RECURSIVE MessageLists(_)
MessageLists(budget) ==
    {<<>>} \cup
    UNION {{<<m>> \o rest : m \in WireMessages(n), rest \in MessageLists(budget - n - 1)} :
             n \in 0..(budget - 1)}

\* the lists of plain-string messages, of the four speakers and an unknown one
TextMessageLists ==
    SeqsOf([speaker : Speaker \cup {"narrator"}, content : {Str("Hello"), Str("")}],
           0, MaxTexts)

SimpleMessages == <<[speaker |-> "human", content |-> Str("Test")]>>

Schemas == {Obj(<<>>), Obj(<< <<"type", Str("object")>> >>)}

ToolDefs ==
    {[type |-> Str("function"), name |-> Str("search"),
      description |-> Str("Search for information"),
      parameters |-> Obj(<< <<"type", Str("object")>> >>)],
     [type |-> Str("function"), name |-> Str("calculate"),
      parameters |-> Obj(<<>>)]}

\* runtime parameters: maxTokens, topP, userId, userID, messages, responseFormat
RuntimeItems ==
    {<< <<"m", "a", "x", "T", "o", "k", "e", "n", "s">>, Num(1000) >>,
     << <<"t", "o", "p", "P">>, Num(1) >>,
     << <<"u", "s", "e", "r", "I", "d">>, Num(7) >>,
     << <<"u", "s", "e", "r", "I", "D">>, Num(8) >>,
     << <<"m", "e", "s", "s", "a", "g", "e", "s">>, Num(5) >>,
     << <<"r", "e", "s", "p", "o", "n", "s", "e", "F", "o", "r", "m", "a", "t">>, Num(2) >>}

\* runtime mappings: items in insertion order, keys pairwise distinct
Runtimes ==
    {Obj(items) : items \in
        {r \in SeqsOf(RuntimeItems, 0, MaxRuntime) :
            \A i, j \in 1..Len(r) : i # j => r[i][1] # r[j][1]}}

\* the optional fields of the renderer's result
Metadata ==
    {s @@ t @@ r :
        s \in {EmptyDict} \cup {[schema |-> x] : x \in Schemas},
        t \in {EmptyDict} \cup {[tools |-> List(x)] : x \in SeqsOf(ToolDefs, 0, MaxTools)},
        r \in {EmptyDict} \cup {[runtime |-> x] : x \in Runtimes}}

\* results of a chat render: envelopes with rich messages, with text-only
\* messages and with metadata, and the legacy bare message array
ChatResults ==
    {[messages |-> List(ms)] : ms \in MessageLists(MaxSize) \cup TextMessageLists}
    \cup {[messages |-> List(SimpleMessages)] @@ md : md \in Metadata}
    \cup {List(ms) : ms \in TextMessageLists}

\* results of a non-chat render: messages holds one rich content
NonChatResults ==
    {[messages |-> c] : c \in {Str("Hello")} \cup {List(l) : l \in SeqsOf(Parts, 0, 1)}}

NoCall == [nocall |-> TRUE]

Path(p) == [path |-> p]

\* api.py just imported, POML_TRACE not set: tracing off, nothing logged
TraceOff ==
    /\ trace_enabled = FALSE
    /\ weave_enabled = FALSE
    /\ agentops_enabled = FALSE
    /\ mlflow_enabled = FALSE
    /\ trace_dir = None
    /\ trace_log = <<>>
    /\ env_dir = None
    /\ trace_files = EmptyDict
    /\ backend_log = <<>>
    /\ pc = "idle"
    /\ call = None
    /\ temp_files = {}
    /\ api_call = "import"
    /\ api_arg = <<>>
    /\ api_result = NoCall
    /\ alias_record = 0
    /\ own_prefix = None
    /\ traced_calls = <<>>
    /\ calls = 0
    /\ others = 0

\* Prompt(): nothing built, no tag open
PromptNew ==
    /\ elements = <<>>
    /\ is_context_managed = <<>>
    /\ root_elements = <<>>
    /\ current_parent_stack = <<>>
    /\ open_blocks = <<>>
    /\ built = <<>>
    /\ prompt_call = "Prompt"
    /\ prompt_arg = None
    /\ prompt_result = NoCall

Formats == {"raw", "message_dict", "dict", "openai_chat", "langchain", "pydantic", "xml"}

(***************************************************************************)
(* The state machine.                                                      *)
(***************************************************************************)
Init ==
    /\ \/ /\ chat = TRUE
          /\ process \in {[returncode |-> 0, output |-> Text(r)] : r \in ChatResults}
       \/ /\ chat = FALSE
          /\ process \in {[returncode |-> 0, output |-> Text(r)] : r \in NonChatResults}
       \/ /\ chat \in BOOLEAN
          /\ process = [returncode |-> 1, output |-> Text(None)]
    /\ format = "message_dict"
    /\ return_result = NoCall
    /\ arg_name = <<>>
    /\ snake = NoCall
    /\ PromptNew
    /\ TraceOff

\* poml(markup, chat=chat, format=f)
PomlCall(f) ==
    /\ format' = f
    /\ return_result' = poml(process, chat, f)
    /\ UNCHANGED <<process, chat, normVars, promptVars, traceVars>>

Next == \E f \in Formats : PomlCall(f)

Spec == Init /\ [][Next]_vars

(***************************************************************************)
(* The naming normalizer on its own: a key is chosen and converted.        *)
(***************************************************************************)
Chars == {"a", "b", "A", "B", "1", "_", "-"}

maxTokens == <<"m", "a", "x", "T", "o", "k", "e", "n", "s">>
topP == <<"t", "o", "p", "P">>
frequencyPenalty ==
    <<"f", "r", "e", "q", "u", "e", "n", "c", "y", "P", "e", "n", "a", "l", "t", "y">>

\* the keys given to the normalizer: every string over Chars up to MaxName
\* characters, and the parameter names of the tests
Names == SeqsOf(Chars, 0, MaxName) \cup {maxTokens, topP, frequencyPenalty}

NormInit ==
    /\ arg_name \in Names
    /\ snake = NoCall
    /\ chat = FALSE
    /\ process = [returncode |-> 1, output |-> Text(None)]
    /\ format = "message_dict"
    /\ return_result = NoCall
    /\ PromptNew
    /\ TraceOff

\* _camel_case_to_snake_case(arg_name)
NormalizeCall ==
    /\ snake' = [returned |-> camel_case_to_snake_case(arg_name)]
    /\ UNCHANGED <<convVars, arg_name, promptVars, traceVars>>

NormNext == NormalizeCall

NormSpec == NormInit /\ [][NormNext]_vars

(***************************************************************************)
(* The Prompt builder (src/python/poml/prompt.py).  An element is known by  *)
(* its position in elements; its handler is known by the same number.      *)
(* Attributes are left out, and so is the indentation that dump_xml adds.   *)
(***************************************************************************)
TagNames == {"Task"}
Content == "A."

\* ET.Element(tag_name): no text, no tail, no children
Element(tag_name) == [tag |-> tag_name, text |-> <<>>, tail |-> <<>>, children |-> <<>>]

\* ET.tostring(element, encoding="unicode", method="xml")
RECURSIVE XmlOf(_, _)
XmlOf(els, e) ==
    LET el == els[e]
        inner == Cat(el.text) \o Cat([k \in 1..Len(el.children) |-> XmlOf(els, el.children[k])])
    IN (IF el.text = <<>> /\ el.children = <<>>
        THEN "<" \o el.tag \o " />"
        ELSE "<" \o el.tag \o ">" \o inner \o "</" \o el.tag \o ">")
       \o Cat(el.tail)

\* _generate_xml_string(pretty): the serialized root elements, joined
generate_xml_string(pretty) ==
    Join(IF pretty /\ root_elements # <<>> THEN "\n" ELSE "",
         [k \in 1..Len(root_elements) |-> XmlOf(elements, root_elements[k])])

PromptInit ==
    /\ PromptNew
    /\ chat = TRUE
    /\ process = [returncode |-> 1, output |-> Text(None)]
    /\ format = "message_dict"
    /\ return_result = NoCall
    /\ arg_name = <<>>
    /\ snake = NoCall
    /\ TraceOff

\* prompt.tag(tag_name): _ImplicitDualTagHandler.__init__
Tag(tag_name) ==
    /\ Len(elements) < MaxElems
    /\ LET e == Len(elements) + 1 IN
       /\ IF current_parent_stack # <<>>
          THEN LET parent == current_parent_stack[Len(current_parent_stack)] IN
               /\ elements' = Append([elements EXCEPT ![parent].children = Append(@, e)],
                                     Element(tag_name))
               /\ UNCHANGED <<root_elements, built>>
          ELSE /\ elements' = Append(elements, Element(tag_name))
               /\ root_elements' = Append(root_elements, e)
               /\ built' = Append(built, e)
       /\ is_context_managed' = Append(is_context_managed, FALSE)
       /\ prompt_call' = "tag"
       /\ prompt_arg' = tag_name
       /\ prompt_result' = [returned |-> e]
    /\ UNCHANGED <<current_parent_stack, open_blocks>>
    /\ UNCHANGED <<convVars, normVars, traceVars>>

\* _ImplicitDualTagHandler.__enter__ of handler h
TagEnter(h) ==
    /\ Len(open_blocks) < MaxDepth
    /\ current_parent_stack' = Append(current_parent_stack, h)
    /\ is_context_managed' = [is_context_managed EXCEPT ![h] = TRUE]
    /\ open_blocks' = Append(open_blocks, h)
    /\ prompt_call' = "enter"
    /\ prompt_arg' = h
    /\ prompt_result' = [returned |-> h]
    /\ UNCHANGED <<elements, root_elements, built>>
    /\ UNCHANGED <<convVars, normVars, traceVars>>

\* the with block of handler h is the innermost open one and ends with this call
ClosesBlock(h) == open_blocks # <<>> /\ open_blocks[Len(open_blocks)] = h

\* _ImplicitDualTagHandler.__exit__ of handler h; the with block of h, when
\* it is the innermost open one, ends whether or not an exception is raised
TagExit(h) ==
    /\ prompt_call' = "exit"
    /\ prompt_arg' = h
    /\ IF ~is_context_managed[h]
       THEN /\ prompt_result' = Raise("SystemError", "not properly context-managed")
            /\ UNCHANGED current_parent_stack
       ELSE IF current_parent_stack = <<>>
       THEN /\ prompt_result' = Raise("SystemError", "Tag stack empty")
            /\ UNCHANGED current_parent_stack
       ELSE LET popped_element == current_parent_stack[Len(current_parent_stack)] IN
            IF popped_element # h
            THEN /\ prompt_result' = Raise("SystemError", "Mismatched tag")
                 /\ UNCHANGED current_parent_stack
            ELSE /\ prompt_result' = [returned |-> None]
                 /\ current_parent_stack' =
                       SubSeq(current_parent_stack, 1, Len(current_parent_stack) - 1)
    /\ open_blocks' = IF ClosesBlock(h)
                      THEN SubSeq(open_blocks, 1, Len(open_blocks) - 1)
                      ELSE open_blocks
    /\ UNCHANGED <<elements, is_context_managed, root_elements, built>>
    /\ UNCHANGED <<convVars, normVars, traceVars>>

\* the pieces of content added by text() so far
RECURSIVE TextCount(_)
TextCount(els) ==
    IF els = <<>> THEN 0
    ELSE Len(Head(els).text) + Len(Head(els).tail) + TextCount(Tail(els))

\* Prompt.text(Content)
PromptText ==
    /\ prompt_call' = "text"
    /\ prompt_arg' = Content
    /\ IF current_parent_stack = <<>>
       THEN /\ prompt_result' = Raise("ValueError", "Cannot add text")
            /\ UNCHANGED elements
       ELSE LET current_el == current_parent_stack[Len(current_parent_stack)]
                kids == elements[current_el].children
            IN /\ TextCount(elements) < MaxText
               /\ prompt_result' = [returned |-> None]
               /\ IF Len(kids) > 0
                  THEN /\ elements' = [elements EXCEPT ![kids[Len(kids)]].tail =
                                                          Append(@, Content)]
                  ELSE /\ elements' = [elements EXCEPT ![current_el].text =
                                                          Append(@, Content)]
    /\ UNCHANGED <<is_context_managed, root_elements, current_parent_stack,
                   open_blocks, built>>
    /\ UNCHANGED <<convVars, normVars, traceVars>>

\* Prompt.render(): the XML handed to poml, or the error raised before that
Render ==
    /\ prompt_call' = "render"
    /\ prompt_arg' = None
    /\ prompt_result' =
          IF current_parent_stack # <<>>
          THEN Raise("ValueError", "Cannot render")
          ELSE [rendered |-> generate_xml_string(FALSE)]
    /\ UNCHANGED <<elements, is_context_managed, root_elements, current_parent_stack,
                   open_blocks, built>>
    /\ UNCHANGED <<convVars, normVars, traceVars>>

\* Prompt.dump_xml()
DumpXml ==
    /\ prompt_call' = "dump_xml"
    /\ prompt_arg' = None
    /\ prompt_result' = [returned |-> generate_xml_string(TRUE)]
    /\ UNCHANGED <<elements, is_context_managed, root_elements, current_parent_stack,
                   open_blocks, built>>
    /\ UNCHANGED <<convVars, normVars, traceVars>>

\* Prompt.__enter__: both lists are replaced by empty ones; a tag's with
\* block that is open stays open
PromptEnter ==
    /\ prompt_call' = "__enter__"
    /\ prompt_arg' = None
    /\ prompt_result' = [returned |-> None]
    /\ root_elements' = <<>>
    /\ current_parent_stack' = <<>>
    /\ UNCHANGED <<elements, is_context_managed, open_blocks, built>>
    /\ UNCHANGED <<convVars, normVars, traceVars>>

\* Prompt.__exit__: both lists are cleared
PromptExit ==
    /\ prompt_call' = "__exit__"
    /\ prompt_arg' = None
    /\ prompt_result' = [returned |-> None]
    /\ root_elements' = <<>>
    /\ current_parent_stack' = <<>>
    /\ UNCHANGED <<elements, is_context_managed, open_blocks, built>>
    /\ UNCHANGED <<convVars, normVars, traceVars>>

PromptNext ==
    \/ \E tag_name \in TagNames : Tag(tag_name)
    \/ \E h \in 1..Len(elements) : TagEnter(h)
    \/ \E h \in 1..Len(elements) : TagExit(h)
    \/ PromptText
    \/ Render
    \/ DumpXml
    \/ PromptEnter
    \/ PromptExit

PromptSpec == PromptInit /\ [][PromptNext]_vars

(***************************************************************************)
(* Tracing of poml calls (src/python/poml/api.py).  A directory is known   *)
(* by its path; a trace prefix is a directory and the index of a render.   *)
(* Other processes render into the same directories at any time, also      *)
(* while a poml call of this process is between run() and its return.      *)
(***************************************************************************)
Shared == "shared"

\* the run directory base / ts of the n-th set_trace(trace_dir=base)
RunDir(n) == "traces/" \o ToString(n)

RunDirs == DOMAIN trace_files \ {Shared}

\* the values given to set_trace as enabled
EnabledArgs ==
    {[bool |-> TRUE], [bool |-> FALSE], Str("local"), Str("weave"), List(<<>>),
     List(<<"agentops">>), List(<<"weave", "mlflow">>)}

\* enabled as a list of backend names
BackendList(enabled) ==
    IF "bool" \in DOMAIN enabled
    THEN (IF enabled.bool THEN <<"local">> ELSE <<>>)
    ELSE IF IsStr(enabled) THEN <<enabled.str>>
    ELSE enabled.list

\* spec-side part: the renderer, given --traceDir d, writes its trace files
\* under the next index of d, one above the highest index in use
RendererTrace(files, d, who) == [files EXCEPT ![d] = Append(@, who)]

\* _current_trace_version()
current_trace_version ==
    IF ~(trace_enabled /\ trace_dir # None) THEN None ELSE Str(trace_dir.path)

\* _latest_trace_prefix(): the prefix with the highest index in _trace_dir
latest_trace_prefix ==
    IF ~(trace_enabled /\ trace_dir # None) THEN None
    ELSE LET fs == trace_files[trace_dir.path] IN
         IF fs = <<>> THEN None
         ELSE [dir |-> trace_dir.path, idx |-> Len(fs)]

\* the arguments of a poml call: markup is a string of POML, an existing path
\* or a Path that does not exist; context and stylesheet are absent, a dict,
\* an existing path or a path that does not exist
PlainArgs == [markup |-> "string", context |-> "dict", stylesheet |-> "dict"]

PomlArgs ==
    {PlainArgs,
     [markup |-> "missing", context |-> "path", stylesheet |-> "none"],
     [markup |-> "path", context |-> "dict", stylesheet |-> "missing"],
     [markup |-> "string", context |-> "missing", stylesheet |-> "dict"]}

\* the trace record as poml fills it before staging
TraceRecordOf(args) ==
    (CASE args.markup = "string" -> [markup |-> "<p>Hi</p>"]
       [] args.markup = "path" -> [markup_path |-> "prompt.poml", markup |-> "<p>Hi</p>"]
       [] OTHER -> [markup_path |-> "absent.poml"])
    @@ (CASE args.context = "dict" -> [context |-> "{}"]
          [] args.context = "path" -> [context_path |-> "context.json", context |-> "{}"]
          [] OTHER -> EmptyDict)
    @@ (CASE args.stylesheet = "dict" -> [stylesheet |-> "{}"]
          [] args.stylesheet = "path" ->
                [stylesheet_path |-> "style.json", stylesheet |-> "{}"]
          [] OTHER -> EmptyDict)

\* staging: the temporary files created on the way to run(), and the
\* FileNotFoundError that ends the way, if any
Staged(args) ==
    IF args.markup = "missing"
    THEN [error |-> Raise("FileNotFoundError", "markup"), created |-> {}]
    ELSE
    LET c1 == (IF args.markup = "string" THEN {"input"} ELSE {}) \cup {"output"} IN
    IF args.context = "missing"
    THEN [error |-> Raise("FileNotFoundError", "context"), created |-> c1]
    ELSE
    LET c2 == c1 \cup (IF args.context = "dict" THEN {"context"} ELSE {}) IN
    IF args.stylesheet = "missing"
    THEN [error |-> Raise("FileNotFoundError", "stylesheet"), created |-> c2]
    ELSE [error |-> None,
          created |-> c2 \cup (IF args.stylesheet = "dict" THEN {"stylesheet"} ELSE {})]

\* the with block of temp_output_file ends
WithClosed(open) == open \ {"output"}

\* variant: the finally block does not close the stylesheet file
FinallyKeepsStylesheet(open) == open \ {"input", "context"}

\* the finally block closes temp_input_file, temp_context_file, temp_stylesheet_file
FinallyClosed(open) == open \ {"input", "context", "stylesheet"}

\* variant: only the record of a call that returned is appended
TraceLogAfterReturn(log, trace_record) ==
    IF trace_record # None /\ "result" \in DOMAIN trace_record
    THEN Append(log, trace_record)
    ELSE log

\* the finally block appends the trace record, if there is one
TraceLogAfter(log, trace_record) ==
    IF trace_record # None THEN Append(log, trace_record) ELSE log

\* the renderer results of the traced calls
TraceEnvelope ==
    [messages |-> List(SimpleMessages),
     schema |-> Obj(<< <<"type", Str("object")>> >>),
     tools |-> List(<<[type |-> Str("function"), name |-> Str("calculate"),
                       parameters |-> Obj(<<>>)]>>),
     runtime |-> Obj(<< << <<"t", "o", "p", "P">>, Num(1) >> >>)]

Rendered == [returncode |-> 0, output |-> Text(TraceEnvelope)]
RenderedLegacy == [returncode |-> 0, output |-> Text(List(SimpleMessages))]
Failed == [returncode |-> 1, output |-> Text(None)]

TraceProcesses == {Rendered, Failed}

\* raw, a format that parses the result, and an unknown format
TraceFormats == {"raw", "dict", "xml"}

\* the formats whose return value is built from the parsed result without
\* message models
AliasFormats == {"raw", "message_dict", "dict", "langchain"}

\* the enabled backends in the order of their hooks in poml
BackendHooks ==
    (IF weave_enabled THEN <<"Weave">> ELSE <<>>)
    \o (IF agentops_enabled THEN <<"AgentOps">> ELSE <<>>)
    \o (IF mlflow_enabled THEN <<"MLflow">> ELSE <<>>)

\* the module level of api.py: set_trace(True) when POML_TRACE is set
TraceInit ==
    /\ env_dir \in {None, Str(Shared)}
    /\ IF env_dir # None
       THEN /\ trace_enabled = TRUE
            /\ trace_dir = Path(env_dir.str)
            /\ trace_files = [d \in {env_dir.str} |-> <<>>]
       ELSE /\ trace_enabled = FALSE
            /\ trace_dir = None
            /\ trace_files = EmptyDict
    /\ weave_enabled = FALSE
    /\ agentops_enabled = FALSE
    /\ mlflow_enabled = FALSE
    /\ trace_log = <<>>
    /\ backend_log = <<>>
    /\ pc = "idle"
    /\ call = None
    /\ temp_files = {}
    /\ api_call = "import"
    /\ api_arg = <<>>
    /\ api_result = NoCall
    /\ alias_record = 0
    /\ own_prefix = None
    /\ traced_calls = <<>>
    /\ calls = 0
    /\ others = 0
    /\ chat = TRUE
    /\ process = [returncode |-> 1, output |-> Text(None)]
    /\ format = "message_dict"
    /\ return_result = NoCall
    /\ arg_name = <<>>
    /\ snake = NoCall
    /\ PromptNew

\* set_trace(enabled, trace_dir=trace_dir_arg)
SetTrace(enabled_arg, trace_dir_arg) ==
    /\ pc = "idle"
    /\ LET enabled == BackendList(enabled_arg)
           In(b) == \E i \in 1..Len(enabled) : enabled[i] = b
       IN /\ IF enabled # <<>> \/ In("local")
             THEN /\ trace_enabled' = TRUE
                  /\ IF trace_dir_arg # None
                     THEN /\ Cardinality(RunDirs) < MaxRuns
                          /\ LET run_dir == RunDir(Cardinality(RunDirs) + 1) IN
                             /\ trace_dir' = Path(run_dir)
                             /\ trace_files' = [d \in {run_dir} |-> <<>>] @@ trace_files
                     ELSE IF Truthy(env_dir)
                     THEN /\ trace_dir' = Path(env_dir.str)
                          /\ trace_files' = trace_files @@ [d \in {env_dir.str} |-> <<>>]
                     ELSE /\ trace_dir' = None
                          /\ UNCHANGED trace_files
             ELSE /\ trace_enabled' = FALSE
                  /\ trace_dir' = None
                  /\ UNCHANGED trace_files
          /\ weave_enabled' = In("weave")
          /\ agentops_enabled' = In("agentops")
          /\ mlflow_enabled' = In("mlflow")
    /\ api_call' = "set_trace"
    /\ api_arg' = <<>>
    /\ api_result' = [returned |-> trace_dir']
    /\ UNCHANGED <<trace_log, env_dir, backend_log, pc, call, temp_files,
                   alias_record, own_prefix, traced_calls, calls, others>>
    /\ UNCHANGED <<convVars, normVars, promptVars>>

\* clear_trace()
ClearTrace ==
    /\ pc = "idle"
    /\ trace_log' = <<>>
    /\ traced_calls' = <<>>
    /\ alias_record' = 0
    /\ api_call' = "clear_trace"
    /\ api_arg' = <<>>
    /\ api_result' = [returned |-> None]
    /\ UNCHANGED <<trace_enabled, weave_enabled, agentops_enabled, mlflow_enabled,
                   trace_dir, env_dir, trace_files, backend_log, pc, call,
                   temp_files, own_prefix, calls, others>>
    /\ UNCHANGED <<convVars, normVars, promptVars>>

\* get_trace(): a new list of the records
get_trace == List(trace_log)

\* poml(markup, context, stylesheet, format=f) up to the exit of the renderer
\* as proc: the trace record, staging, run(); an error on the way ends the call
\* through the with block and the finally block
PomlBegin(args, f, proc) ==
    /\ pc = "idle"
    /\ calls < MaxCalls
    /\ calls' = calls + 1
    /\ api_call' = "poml"
    /\ api_arg' = <<>>
    /\ api_result' = NoCall
    /\ alias_record' = 0
    /\ format' = f
    /\ process' = proc
    /\ chat' = TRUE
    /\ LET trace_record == IF trace_enabled THEN TraceRecordOf(args) ELSE None
           staged == Staged(args)
           traced == trace_enabled /\ trace_dir # None
           error == IF staged.error # None THEN staged.error
                    ELSE IF proc.returncode # 0
                    THEN Raise("RuntimeError", "POML command failed")
                    ELSE None
       IN IF error # None
          THEN /\ return_result' = error
               /\ temp_files' = FinallyClosed(WithClosed(staged.created))
               /\ trace_log' = TraceLogAfter(trace_log, trace_record)
               /\ traced_calls' = IF trace_enabled THEN Append(traced_calls, "raised")
                                  ELSE traced_calls
               /\ UNCHANGED <<pc, call, trace_files, own_prefix>>
          ELSE /\ return_result' = NoCall
               /\ temp_files' = staged.created
               /\ pc' = "rendered"
               /\ call' = [trace_record |-> trace_record]
               /\ traced_calls' = IF trace_enabled THEN Append(traced_calls, "running")
                                  ELSE traced_calls
               /\ trace_files' = IF traced
                                 THEN RendererTrace(trace_files, trace_dir.path, "self")
                                 ELSE trace_files
               /\ own_prefix' = IF traced
                                THEN [dir |-> trace_dir.path,
                                      idx |-> Len(trace_files[trace_dir.path]) + 1]
                                ELSE own_prefix
               /\ UNCHANGED trace_log
    /\ backend_log' = <<>>
    /\ UNCHANGED <<trace_enabled, weave_enabled, agentops_enabled, mlflow_enabled,
                   trace_dir, env_dir, others>>
    /\ UNCHANGED <<normVars, promptVars>>

\* poml from the renderer's exit to the end of the call: conversion, backend
\* hooks, the result entry of the trace record, the with block and finally
PomlEnd ==
    /\ pc = "rendered"
    /\ \E converted \in {poml(process, chat, format)} :
       LET trace_result == IF format = "raw" THEN process.output
                           ELSE json_loads(process.output)
           trace_prefix == latest_trace_prefix
           hook_error == /\ BackendHooks # <<>>
                         /\ (trace_prefix = None \/ current_trace_version = None)
           outcome == IF IsRaise(converted) THEN converted
                      ELSE IF hook_error
                      THEN Raise("RuntimeError",
                                 BackendHooks[1] \o
                                 " tracing requires local tracing to be enabled.")
                      ELSE converted
           trace_record == IF call.trace_record # None /\ ~IsRaise(outcome)
                           THEN [result |-> trace_result] @@ call.trace_record
                           ELSE call.trace_record
       IN /\ return_result' = outcome
          /\ backend_log' =
                IF IsRaise(outcome) THEN <<>>
                ELSE [i \in 1..Len(BackendHooks) |->
                        [backend |-> BackendHooks[i], prefix |-> trace_prefix,
                         own |-> own_prefix]]
          /\ trace_log' = TraceLogAfter(trace_log, trace_record)
          /\ alias_record' = IF trace_record # None /\ ~IsRaise(outcome)
                             THEN Len(trace_log) + 1 ELSE 0
          /\ traced_calls' =
                IF call.trace_record # None
                THEN [traced_calls EXCEPT ![Len(traced_calls)] =
                         IF IsRaise(outcome) THEN "raised" ELSE "returned"]
                ELSE traced_calls
    /\ temp_files' = FinallyClosed(WithClosed(temp_files))
    /\ pc' = "idle"
    /\ call' = None
    /\ UNCHANGED <<trace_enabled, weave_enabled, agentops_enabled, mlflow_enabled,
                   trace_dir, env_dir, trace_files, api_call, api_arg,
                   api_result, own_prefix, calls, others>>
    /\ UNCHANGED <<process, chat, format, normVars, promptVars>>

\* a poml call of another process with --traceDir d
OtherProcessPoml(d) ==
    /\ others < MaxOther
    /\ others' = others + 1
    /\ trace_files' = RendererTrace(trace_files, d, "other")
    /\ UNCHANGED <<trace_enabled, weave_enabled, agentops_enabled, mlflow_enabled,
                   trace_dir, trace_log, env_dir, backend_log, pc, call,
                   temp_files, api_call, api_arg, api_result, alias_record,
                   own_prefix, traced_calls, calls>>
    /\ UNCHANGED <<convVars, normVars, promptVars>>

FileSuffixes == {<<"t", "x", "t">>, <<".", "j", "s", "o", "n">>}

\* file_suffix if file_suffix.startswith(".") else "." + file_suffix
ArtifactSuffix(file_suffix) ==
    IF file_suffix # <<>> /\ file_suffix[1] = "."
    THEN file_suffix
    ELSE <<".">> \o file_suffix

\* trace_artifact(file_suffix, contents): the path written and returned, or None
\* when nothing is written
TraceArtifact(file_suffix) ==
    /\ pc = "idle"
    /\ api_call' = "trace_artifact"
    /\ api_arg' = file_suffix
    /\ LET prefix == latest_trace_prefix IN
       IF prefix = None
       THEN api_result' = [returned |-> None]
       ELSE LET path == [prefix |-> prefix, suffix |-> Cat(ArtifactSuffix(file_suffix))] IN
            api_result' = [returned |-> path]
    /\ UNCHANGED <<trace_enabled, weave_enabled, agentops_enabled, mlflow_enabled,
                   trace_dir, trace_log, env_dir, trace_files, backend_log, pc, call,
                   temp_files, alias_record, own_prefix, traced_calls, calls, others>>
    /\ UNCHANGED <<convVars, normVars, promptVars>>

Root == "."

\* the places of a returned value that the caller can change: the value itself
\* and, of a dict, its members
Paths(f, returned) ==
    CASE f = "message_dict" -> {Root}
      [] f \in {"dict", "langchain"} -> {Root} \cup DOMAIN returned
      [] OTHER -> {}

\* list.clear() or dict.clear()
Clear(v) ==
    IF IsList(v) THEN List(<<>>)
    ELSE IF IsObj(v) THEN Obj(<<>>)
    ELSE EmptyDict

Mutated(v, p) == IF p = Root THEN Clear(v) ELSE [v EXCEPT ![p] = Clear(@)]

\* the place of the parsed renderer result that is the same object as place p
\* of the value poml returned for format f, or "none"
AliasOf(f, parsed_result, p) ==
    IF "messages" \in DOMAIN parsed_result
    THEN CASE f = "dict" -> p
           [] f = "message_dict" -> "messages"
           [] f = "langchain" /\ p \notin {Root, "messages"} -> p
           [] OTHER -> "none"
    ELSE CASE f = "dict" /\ p = "messages" -> Root
           [] f = "message_dict" -> Root
           [] OTHER -> "none"

\* the caller clears place p of the value the poml call just made returned
CallerMutates(p) ==
    /\ pc = "idle"
    /\ api_call = "poml"
    /\ "returned" \in DOMAIN return_result
    /\ p \in Paths(format, return_result.returned)
    /\ api_call' = "mutate"
    /\ api_arg' = <<>>
    /\ api_result' = NoCall
    /\ return_result' = [returned |-> Mutated(return_result.returned, p)]
    /\ LET q == AliasOf(format, json_loads(process.output), p) IN
       trace_log' = IF alias_record # 0 /\ q # "none"
                    THEN [trace_log EXCEPT ![alias_record].result = Mutated(@, q)]
                    ELSE trace_log
    /\ UNCHANGED <<trace_enabled, weave_enabled, agentops_enabled, mlflow_enabled,
                   trace_dir, env_dir, trace_files, backend_log, pc, call,
                   temp_files, alias_record, own_prefix, traced_calls, calls, others>>
    /\ UNCHANGED <<process, chat, format, normVars, promptVars>>

\* one process: set_trace, clear_trace and poml calls of every kind
TraceNext ==
    \/ \E enabled_arg \in EnabledArgs, trace_dir_arg \in {None, Str("traces")} :
          SetTrace(enabled_arg, trace_dir_arg)
    \/ ClearTrace
    \/ \E args \in PomlArgs, f \in TraceFormats, proc \in TraceProcesses :
          PomlBegin(args, f, proc)
    \/ PomlEnd

TraceSpec == TraceInit /\ [][TraceNext]_vars

\* several processes render into the same trace directories
SharedDirNext ==
    \/ \E enabled_arg \in EnabledArgs, trace_dir_arg \in {None, Str("traces")} :
          SetTrace(enabled_arg, trace_dir_arg)
    \/ PomlBegin(PlainArgs, "dict", Rendered)
    \/ PomlEnd
    \/ \E d \in DOMAIN trace_files : OtherProcessPoml(d)
    \/ \E file_suffix \in FileSuffixes : TraceArtifact(file_suffix)

SharedDirSpec == TraceInit /\ [][SharedDirNext]_vars

\* the caller changes what poml returned
AliasNext ==
    \/ \E b \in BOOLEAN : SetTrace([bool |-> b], None)
    \/ ClearTrace
    \/ \E f \in AliasFormats, proc \in {Rendered, RenderedLegacy} :
          PomlBegin(PlainArgs, f, proc)
    \/ PomlEnd
    \/ \E p \in {Root, "messages", "schema", "tools", "runtime"} : CallerMutates(p)

AliasSpec == TraceInit /\ [][AliasNext]_vars

(***************************************************************************)
(* Views of the state and of the rendered input used by the properties.    *)
(***************************************************************************)
\* the last poml call had format f and returned a value
Returned(f) == format = f /\ "returned" \in DOMAIN return_result

\* the renderer's parsed result as the envelope dict
Envelope ==
    LET parsed == json_loads(process.output) IN
    IF "messages" \in DOMAIN parsed THEN parsed ELSE [messages |-> parsed]

\* the speaker and wire content of the messages the message model is built from
InputMessages ==
    IF chat THEN Envelope.messages.list
    ELSE <<[speaker |-> "human", content |-> Envelope.messages]>>

\* kinds of wire content parts
TextOrMedia(p) == IsStr(p) \/ "base64" \in DOMAIN p
WireRequest(p) == ~TextOrMedia(p) /\ p.type = TOOLREQUEST
WireResponse(p) == ~TextOrMedia(p) /\ p.type = TOOLRESPONSE
ContentOrCall(p) == TextOrMedia(p) \/ WireRequest(p)

PartsOf(m) == IF IsList(m.content) THEN m.content.list ELSE <<>>

\* plain text of a wire tool response
ResponseText(p) == rich_content_to_text(ContentMultiMediaToolResponse(p).content)

\* number of OpenAI messages a message is expected to produce
OpenAICount(m) ==
    IF m.speaker = "tool"
    THEN IF IsList(m.content) THEN Len(SelectSeq(m.content.list, WireResponse)) ELSE 1
    ELSE IF IsStr(m.content) THEN 1
    ELSE IF SelectSeq(m.content.list, ContentOrCall) # <<>> THEN 1 ELSE 0

\* number of OpenAI messages expected from the messages before the i-th
RECURSIVE OpenAIOffset(_, _)
OpenAIOffset(ms, i) ==
    IF i = 1 THEN 0 ELSE OpenAIOffset(ms, i - 1) + OpenAICount(ms[i - 1])

OpenAIReturned == Returned("openai_chat") /\ IsList(return_result.returned.messages)
OpenAIOut == return_result.returned.messages.list
OpenAILenOk == Len(OpenAIOut) = OpenAIOffset(InputMessages, Len(InputMessages) + 1)

\* the output messages at the positions expected for input message i
OpenAISlice(i) ==
    SubSeq(OpenAIOut, OpenAIOffset(InputMessages, i) + 1,
           OpenAIOffset(InputMessages, i) + OpenAICount(InputMessages[i]))

\* number of LangChain entries a message is expected to produce
LangchainCount(m) ==
    IF IsStr(m.content) THEN 1
    ELSE Len(SelectSeq(m.content.list, WireResponse))
         + (IF SelectSeq(m.content.list, ContentOrCall) # <<>> THEN 1 ELSE 0)

RECURSIVE LangchainOffset(_, _)
LangchainOffset(ms, i) ==
    IF i = 1 THEN 0 ELSE LangchainOffset(ms, i - 1) + LangchainCount(ms[i - 1])

LangchainReturned == Returned("langchain") /\ IsList(return_result.returned.messages)
LangchainOut == return_result.returned.messages.list
LangchainLenOk == Len(LangchainOut) = LangchainOffset(InputMessages, Len(InputMessages) + 1)

LangchainSlice(i) ==
    SubSeq(LangchainOut, LangchainOffset(InputMessages, i) + 1,
           LangchainOffset(InputMessages, i) + LangchainCount(InputMessages[i]))

(***************************************************************************)
(* Properties.                                                             *)
(***************************************************************************)

\* C2: in the OpenAIChat conversion a tool message with list content yields
\* exactly one message {role: "tool", content: <plain text>, tool_call_id: <id>}
\* per ToolCallResponse part, in part order, and no other message.
C2_ToolResponsesToOpenAI ==
    OpenAIReturned =>
        /\ OpenAILenOk
        /\ \A i \in 1..Len(InputMessages) :
              LET m == InputMessages[i]
                  rs == SelectSeq(PartsOf(m), WireResponse)
              IN (m.speaker = "tool" /\ IsList(m.content)) =>
                    OpenAISlice(i) =
                        [k \in 1..Len(rs) |->
                            [role |-> "tool", content |-> Str(ResponseText(rs[k])),
                             tool_call_id |-> rs[k].id]]

\* a tool message with a response part and a part of another kind was converted
C2_Witness ==
    /\ OpenAIReturned
    /\ \E i \in 1..Len(InputMessages) :
          /\ InputMessages[i].speaker = "tool"
          /\ SelectSeq(PartsOf(InputMessages[i]), WireResponse) # <<>>
          /\ SelectSeq(PartsOf(InputMessages[i]), ContentOrCall) # <<>>

\* C3: in the OpenAIChat conversion an assistant message with list content has
\* tool_calls with one {id, type: "function", function: {name, arguments}} per
\* ToolCallRequest part, in part order, arguments being the JSON text of the
\* argument value or the value itself when it is a string; an output message
\* whose input has no ToolCallRequest part has no tool_calls key.
C3_ToolCallsToOpenAI ==
    OpenAIReturned =>
        /\ OpenAILenOk
        /\ \A i \in 1..Len(InputMessages) :
              LET m == InputMessages[i]
                  reqs == SelectSeq(PartsOf(m), WireRequest)
              IN \A k \in 1..OpenAICount(m) :
                    LET o == OpenAISlice(i)[k] IN
                    IF m.speaker = "ai" /\ reqs # <<>>
                    THEN /\ "tool_calls" \in DOMAIN o
                         /\ o.tool_calls =
                               [n \in 1..Len(reqs) |->
                                  [id |-> reqs[n].id, type |-> "function",
                                   function |->
                                      [name |-> reqs[n].name,
                                       arguments |->
                                          IF IsStr(reqs[n].content)
                                          THEN reqs[n].content.str
                                          ELSE json_dumps(reqs[n].content)]]]
                    ELSE "tool_calls" \notin DOMAIN o

\* an assistant message with a string argument and an object argument was converted
C3_Witness ==
    /\ OpenAIReturned
    /\ \E i \in 1..Len(InputMessages) :
          LET reqs == SelectSeq(PartsOf(InputMessages[i]), WireRequest) IN
          /\ InputMessages[i].speaker = "ai"
          /\ \E a, b \in 1..Len(reqs) : IsStr(reqs[a].content) /\ IsObj(reqs[b].content)

\* the OpenAI content part of a wire text or multimedia part
ExpectedOpenAIPart(p) ==
    IF IsStr(p) THEN [type |-> "text", text |-> p.str]
    ELSE [type |-> "image_url",
          image_url |-> [url |-> "data:" \o p.type \o ";base64," \o p.base64]]

\* C4: in the OpenAIChat conversion of a non-tool message with list content the
\* content is the bare text exactly when the text/multimedia parts are one text
\* part; otherwise, with at least one such part, it is the array of their
\* content parts in input order.
C4_ContentToOpenAI ==
    OpenAIReturned =>
        /\ OpenAILenOk
        /\ \A i \in 1..Len(InputMessages) :
              LET m == InputMessages[i]
                  tm == SelectSeq(PartsOf(m), TextOrMedia)
              IN (m.speaker # "tool" /\ tm # <<>>) =>
                    LET o == OpenAISlice(i)[1] IN
                    /\ "content" \in DOMAIN o
                    /\ o.content =
                          IF Len(tm) = 1 /\ IsStr(tm[1]) THEN tm[1]
                          ELSE List([k \in 1..Len(tm) |-> ExpectedOpenAIPart(tm[k])])

\* a message whose only text/multimedia part is a text, next to a tool call, was
\* converted and its content is the bare text
C4_Witness ==
    /\ OpenAIReturned
    /\ \E i \in 1..Len(InputMessages) :
          /\ InputMessages[i].speaker = "ai"
          /\ SelectSeq(PartsOf(InputMessages[i]), TextOrMedia) = <<TextPart>>
          /\ SelectSeq(PartsOf(InputMessages[i]), WireRequest) # <<>>
          /\ OpenAISlice(i)[1].content = TextPart

ExpectedRole(speaker) ==
    CASE speaker = "human" -> "user"
      [] speaker = "ai" -> "assistant"
      [] speaker = "system" -> "system"
      [] OTHER -> "tool"

\* C5: in the OpenAIChat conversion a non-tool message whose list content has no
\* text/multimedia part and no tool call is omitted, and every other non-tool
\* message produces exactly one output message (with its role).
C5_EmptyMessageOmitted ==
    OpenAIReturned =>
        /\ OpenAILenOk
        /\ \A i \in 1..Len(InputMessages) :
              LET m == InputMessages[i] IN
              m.speaker # "tool" =>
                 /\ Len(OpenAISlice(i)) =
                       (IF IsList(m.content) /\ SelectSeq(PartsOf(m), ContentOrCall) = <<>>
                        THEN 0 ELSE 1)
                 /\ \A k \in 1..Len(OpenAISlice(i)) :
                       OpenAISlice(i)[k].role = ExpectedRole(m.speaker)

\* a message with an empty list content was converted next to one with content
C5_Witness ==
    /\ OpenAIReturned
    /\ Len(OpenAIOut) = 1
    /\ \E i, j \in 1..Len(InputMessages) :
          /\ InputMessages[i].speaker # "tool"
          /\ InputMessages[i].content = List(<<>>)
          /\ InputMessages[j].speaker # "tool"
          /\ IsStr(InputMessages[j].content)

\* C9: in the LangChain conversion every ToolCallRequest part becomes an entry
\* {id, name, args} of tool_calls in its own message's data, args being the raw
\* argument value, and every ToolCallResponse part becomes its own entry
\* {type: "tool", data: {content: <plain text>, tool_call_id, name}}; a message
\* with only response parts produces no further entry.
C9_ToolCallsToLangchain ==
    LangchainReturned =>
        /\ LangchainLenOk
        /\ \A i \in 1..Len(InputMessages) :
              LET m == InputMessages[i]
                  rs == SelectSeq(PartsOf(m), WireResponse)
                  reqs == SelectSeq(PartsOf(m), WireRequest)
                  slice == LangchainSlice(i)
              IN IsList(m.content) =>
                   /\ Len(slice) = Len(rs)
                         + (IF SelectSeq(PartsOf(m), ContentOrCall) # <<>> THEN 1 ELSE 0)
                   /\ \A k \in 1..Len(rs) :
                         slice[k] = [type |-> "tool",
                                     data |-> [content |-> Str(ResponseText(rs[k])),
                                               tool_call_id |-> rs[k].id,
                                               name |-> rs[k].name]]
                   /\ \A k \in (Len(rs) + 1)..Len(slice) :
                         /\ slice[k].type = m.speaker
                         /\ IF reqs # <<>>
                            THEN /\ "tool_calls" \in DOMAIN slice[k].data
                                 /\ slice[k].data.tool_calls =
                                       [n \in 1..Len(reqs) |->
                                          [id |-> reqs[n].id, name |-> reqs[n].name,
                                           args |-> reqs[n].content]]
                            ELSE "tool_calls" \notin DOMAIN slice[k].data

\* a message with only a response part, and one with a request, were converted
C9_Witness ==
    /\ LangchainReturned
    /\ \E i, j \in 1..Len(InputMessages) :
          /\ PartsOf(InputMessages[i]) = <<ResponseRich>>
          /\ SelectSeq(PartsOf(InputMessages[j]), WireRequest) # <<>>

\* C10: the LangChain result has every field of the renderer's result other than
\* messages under its own key with its value unchanged, and messages holds the
\* converted LangChain message list.
C10_LangchainKeepsFields ==
    Returned("langchain") =>
        LET r == return_result.returned IN
        /\ \A k \in DOMAIN Envelope \ {"messages"} : k \in DOMAIN r /\ r[k] = Envelope[k]
        /\ DOMAIN r = DOMAIN Envelope
        /\ IsList(r.messages)
        /\ LangchainLenOk
        /\ \A n \in 1..Len(r.messages.list) :
              DOMAIN r.messages.list[n] = {"type", "data"}

\* a result with schema, tools and runtime was converted
C10_Witness ==
    /\ Returned("langchain")
    /\ {"schema", "tools", "runtime"} \subseteq DOMAIN Envelope
    /\ Envelope.tools.list # <<>>
    /\ Envelope.runtime.obj # <<>>

\* a tool request outside an ai message or a tool response outside a tool message
MisplacedToolCall ==
    \E i \in 1..Len(InputMessages) :
        \E k \in 1..Len(PartsOf(InputMessages[i])) :
            LET p == PartsOf(InputMessages[i])[k] IN
            \/ WireRequest(p) /\ InputMessages[i].speaker # "ai"
            \/ WireResponse(p) /\ InputMessages[i].speaker # "tool"

\* C1: for every format other than raw, a render with a ToolCallRequest part in
\* a non-ai message or a ToolCallResponse part in a non-tool message fails with
\* an error and poml returns no result.
C1_MisplacedToolCallFails ==
    (/\ return_result # NoCall
     /\ process.returncode = 0
     /\ format \in {"message_dict", "dict", "pydantic", "openai_chat", "langchain"}
     /\ MisplacedToolCall)
    => IsRaise(return_result)

\* C6: whenever the envelope carries runtime parameters, the OpenAIChat result
\* holds every runtime value v of key k at the top-level key normalize(k), next
\* to messages; none is lost and none stays under a runtime key.
C6_RuntimeMergedAtTopLevel ==
    (Returned("openai_chat") /\ "runtime" \in DOMAIN Envelope) =>
        LET r == return_result.returned
            items == Envelope.runtime.obj
        IN /\ \A n \in 1..Len(items) :
                 LET key == Cat(camel_case_to_snake_case(items[n][1])) IN
                 key \in DOMAIN r /\ r[key] = items[n][2]
           /\ "runtime" \notin DOMAIN r
           /\ "messages" \in DOMAIN r /\ IsList(r.messages)

\* C7: the OpenAIChat result has response_format = {type: "json_schema",
\* json_schema: {name: "schema", schema: <output schema>, strict: true}} whenever
\* the envelope has an output schema, and no response_format key otherwise
\* (stated for the envelopes without runtime parameters).
C7_ResponseFormatFromSchema ==
    (Returned("openai_chat") /\ "runtime" \notin DOMAIN Envelope) =>
        LET r == return_result.returned IN
        IF "schema" \in DOMAIN Envelope
        THEN /\ "response_format" \in DOMAIN r
             /\ r.response_format =
                   [type |-> "json_schema",
                    json_schema |-> [name |-> "schema", schema |-> Envelope.schema,
                                     strict |-> TRUE]]
        ELSE "response_format" \notin DOMAIN r

\* C8: the OpenAIChat result has the key tools whenever the envelope has a tools
\* list, with one {type: "function", function: {name, description, parameters}}
\* per tool definition in order, carrying the definition's own values; it has no
\* tools key when the envelope has no tools list (stated for the envelopes
\* without runtime parameters).
C8_ToolsFromDefinitions ==
    (Returned("openai_chat") /\ "runtime" \notin DOMAIN Envelope) =>
        LET r == return_result.returned IN
        IF "tools" \in DOMAIN Envelope
        THEN /\ "tools" \in DOMAIN r
             /\ IsList(r.tools)
             /\ Len(r.tools.list) = Len(Envelope.tools.list)
             /\ \A n \in 1..Len(Envelope.tools.list) :
                   LET tool == Envelope.tools.list[n]
                       entry == r.tools.list[n]
                   IN /\ entry.type = "function"
                      /\ DOMAIN entry.function = {"name", "description", "parameters"}
                      /\ \A k \in DOMAIN tool \cap DOMAIN entry.function :
                            entry.function[k] = tool[k]
        ELSE "tools" \notin DOMAIN r

\* a chat render whose messages all have plain-string content and one of the
\* four speakers
TextOnlyEnvelope ==
    /\ chat
    /\ process.returncode = 0
    /\ \A i \in 1..Len(InputMessages) :
          /\ IsStr(InputMessages[i].content)
          /\ InputMessages[i].speaker \in Speaker

\* a runtime parameter whose converted name is messages
RuntimeNamedMessages ==
    /\ "runtime" \in DOMAIN Envelope
    /\ \E n \in 1..Len(Envelope.runtime.obj) :
          Cat(camel_case_to_snake_case(Envelope.runtime.obj[n][1])) = "messages"

TextFormats == {"message_dict", "dict", "openai_chat", "langchain"}

\* the message list of the returned value, and the text of one of its entries
ResultMessages ==
    IF format = "message_dict" THEN return_result.returned.list
    ELSE return_result.returned.messages.list
ResultText(e) == IF format = "langchain" THEN e.data.content ELSE e.content

PartIndexes(m, Test(_)) == {k \in 1..Len(PartsOf(m)) : Test(PartsOf(m)[k])}

\* the n-th smallest element of the set S of numbers
NthOf(S, n) == CHOOSE k \in S : Cardinality({j \in S : j < k}) = n - 1

\* a LangChain entry made from a tool response part
IsToolEntry(e) == e.type = "tool" /\ "tool_call_id" \in DOMAIN e.data

\* the positions of the parts of input message i that the a-th LangChain entry
\* of that message comes from: the n-th tool entry comes from the n-th response
\* part, the message's own entry from the text, multimedia and request parts
LangchainSources(i, a) ==
    LET slice == LangchainSlice(i) IN
    IF IsToolEntry(slice[a])
    THEN {NthOf(PartIndexes(InputMessages[i], WireResponse),
                Cardinality({b \in 1..a : IsToolEntry(slice[b])}))}
    ELSE PartIndexes(InputMessages[i], ContentOrCall)

\* the OpenAI messages of input message i follow the order of its parts
OpenAIPartOrder(i) ==
    LET m == InputMessages[i]
        slice == OpenAISlice(i)
        rs == SelectSeq(PartsOf(m), WireResponse)
        reqs == SelectSeq(PartsOf(m), WireRequest)
        tm == SelectSeq(PartsOf(m), TextOrMedia)
    IN /\ \A k \in 1..Len(slice) : slice[k].role = ExpectedRole(m.speaker)
       /\ (m.speaker = "tool" /\ IsList(m.content)) =>
             [k \in 1..Len(slice) |-> slice[k].tool_call_id] =
             [k \in 1..Len(rs) |-> rs[k].id]
       /\ (m.speaker # "tool" /\ IsList(m.content)) =>
             \A k \in 1..Len(slice) :
                /\ "tool_calls" \in DOMAIN slice[k] =>
                      [n \in 1..Len(slice[k].tool_calls) |-> slice[k].tool_calls[n].id] =
                      [n \in 1..Len(reqs) |-> reqs[n].id]
                /\ ("content" \in DOMAIN slice[k] /\ IsList(slice[k].content)) =>
                      slice[k].content.list =
                      [n \in 1..Len(tm) |-> ExpectedOpenAIPart(tm[n])]

\* C12: the OpenAIChat and the LangChain converter preserve document order:
\* the entries of input message i come before those of input message j > i,
\* and the entries made from the parts of one message (content parts, tool
\* calls, tool-response messages) are in the order of the parts they come from.
C12_DocumentOrderPreserved ==
    /\ OpenAIReturned =>
          /\ OpenAILenOk
          /\ \A i \in 1..Len(InputMessages) : OpenAIPartOrder(i)
    /\ LangchainReturned =>
          /\ LangchainLenOk
          /\ \A i \in 1..Len(InputMessages) :
                /\ \A a \in 1..Len(LangchainSlice(i)) :
                      IsToolEntry(LangchainSlice(i)[a])
                      \/ LangchainSlice(i)[a].type = InputMessages[i].speaker
                /\ \A a, b \in 1..Len(LangchainSlice(i)) :
                      a < b => \E x \in LangchainSources(i, a) :
                                  \E y \in LangchainSources(i, b) : x < y

RecognizedFormats == {"raw", "message_dict", "dict", "openai_chat", "langchain", "pydantic"}

\* C13: a poml call with a format outside the recognized ones fails with the
\* unknown-format error, raised before the renderer's output is parsed and
\* before any message model is built: whatever the renderer's output holds, the
\* error of the call is the unknown-format error.
C13_UnknownFormatFailsFirst ==
    (/\ return_result # NoCall
     /\ process.returncode = 0
     /\ format \notin RecognizedFormats)
    => return_result = Raise("ValueError", "Unknown output format")

\* a rendered message whose speaker is none of human, ai, system, tool
UnknownSpeaker ==
    \E i \in 1..Len(InputMessages) : InputMessages[i].speaker \notin Speaker

\* an error about the speaker: the validation error of the message model or
\* the converter's own error
SpeakerError(x) ==
    /\ IsRaise(x)
    /\ \/ x = Raise("ValidationError", "speaker")
       \/ x = Raise("ValueError", "Unknown speaker")

\* C14: a message whose speaker is not one of human, ai, system, tool makes the
\* OpenAIChat and the LangChain conversion fail with an error about the unknown
\* speaker, and nothing is returned for any message.
C14_UnknownSpeakerFails ==
    (/\ return_result # NoCall
     /\ process.returncode = 0
     /\ chat
     /\ format \in {"openai_chat", "langchain"}
     /\ UnknownSpeaker)
    => SpeakerError(return_result)

\* a LangChain conversion of a known speaker followed by an unknown one failed
C14_Witness ==
    /\ format = "langchain"
    /\ process.returncode = 0
    /\ chat
    /\ Len(InputMessages) = 2
    /\ InputMessages[1].speaker \in Speaker
    /\ InputMessages[2].speaker \notin Speaker
    /\ SpeakerError(return_result)

\* a rendered tool message whose list content has a part that is not a
\* ToolCallResponse
ToolMessageWithOtherPart ==
    \E i \in 1..Len(InputMessages) :
        /\ InputMessages[i].speaker = "tool"
        /\ \E k \in 1..Len(PartsOf(InputMessages[i])) :
              ~WireResponse(PartsOf(InputMessages[i])[k])

\* C15: building the message model fails with an error whenever a tool message
\* has list content with a part that is not a ToolCallResponse (a text, a
\* multimedia or a tool-request part); such a part is never silently dropped.
C15_ToolMessageValidated ==
    (/\ return_result # NoCall
     /\ process.returncode = 0
     /\ chat
     /\ format \in {"pydantic", "openai_chat", "langchain"}
     /\ ToolMessageWithOtherPart)
    => IsRaise(return_result)

\* the converter has been applied to arg_name and returned Normalized
Normalizing == "returned" \in DOMAIN snake
Normalized == snake.returned

max_tokens == <<"m", "a", "x", "_", "t", "o", "k", "e", "n", "s">>
top_p == <<"t", "o", "p", "_", "p">>
frequency_penalty ==
    <<"f", "r", "e", "q", "u", "e", "n", "c", "y", "_", "p", "e", "n", "a", "l", "t", "y">>

\* C16: the naming normalizer is idempotent, normalize(normalize(x)) =
\* normalize(x) (here for every key over letters, digits and separators, the
\* camelCase identifiers among them), and it maps maxTokens to max_tokens, topP
\* to top_p and frequencyPenalty to frequency_penalty.
C16_NormalizerIdempotent ==
    Normalizing =>
        /\ camel_case_to_snake_case(Normalized) = Normalized
        /\ arg_name = maxTokens => Normalized = max_tokens
        /\ arg_name = topP => Normalized = top_p
        /\ arg_name = frequencyPenalty => Normalized = frequency_penalty

\* a camelCase identifier of two words was converted and got an underscore
C16_Witness ==
    /\ Normalizing
    /\ arg_name = frequencyPenalty
    /\ Normalized # arg_name
    /\ Len(Normalized) = Len(arg_name) + 1

\* a key that has an underscore or a hyphen in it
HasSeparator(k) == \E i \in 1..Len(k) : k[i] \in {"_", "-"}

\* C17: the naming normalizer returns a string for every key and returns every
\* key that already contains a separator (underscore or hyphen) unchanged,
\* whatever letters the key contains.
C17_SeparatedKeysUnchanged ==
    Normalizing =>
        /\ Normalized \in Seq(STRING)
        /\ HasSeparator(arg_name) => Normalized = arg_name

\* strs with one blank line between consecutive elements
RECURSIVE BlankLineJoined(_)
BlankLineJoined(strs) ==
    IF strs = <<>> THEN ""
    ELSE IF Len(strs) = 1 THEN strs[1]
    ELSE BlankLineJoined(SubSeq(strs, 1, Len(strs) - 1)) \o "\n\n" \o strs[Len(strs)]

\* the text of one part of a wire tool response: the alt value is used whenever
\* the part has one
PartTextAltPresent(p) ==
    IF IsStr(p) THEN p.str
    ELSE IF "alt" \in DOMAIN p THEN "[" \o p.type \o ": " \o p.alt \o "]"
    ELSE "[" \o p.type \o "]"

\* the text of one part of a wire tool response: the alt value is used whenever
\* the part has one that is not the empty string
PartTextAltNonEmpty(p) ==
    IF IsStr(p) THEN p.str
    ELSE IF "alt" \in DOMAIN p /\ p.alt # "" THEN "[" \o p.type \o ": " \o p.alt \o "]"
    ELSE "[" \o p.type \o "]"

\* the plain text expected for the content of a wire tool response
ExpectedRichText(content, PartText(_)) ==
    IF IsStr(content) THEN content
    ELSE Str(BlankLineJoined([k \in 1..Len(content.list) |-> PartText(content.list[k])]))

\* the tool messages and tool entries of both converters carry, for each
\* response part, the text that PartText gives
RichTextRendered(PartText(_)) ==
    /\ OpenAIReturned =>
          /\ OpenAILenOk
          /\ \A i \in 1..Len(InputMessages) :
                LET m == InputMessages[i]
                    rs == SelectSeq(PartsOf(m), WireResponse)
                IN (m.speaker = "tool" /\ IsList(m.content)) =>
                      \A k \in 1..Len(rs) :
                         OpenAISlice(i)[k].content = ExpectedRichText(rs[k].content, PartText)
    /\ LangchainReturned =>
          /\ LangchainLenOk
          /\ \A i \in 1..Len(InputMessages) :
                LET rs == SelectSeq(PartsOf(InputMessages[i]), WireResponse) IN
                \A k \in 1..Len(rs) :
                   LangchainSlice(i)[k].data.content = ExpectedRichText(rs[k].content, PartText)

\* C18 as stated: the rich content of a tool response is rendered to plain text
\* by passing a string through and, for a list, mapping each string part to
\* itself and each multimedia part to "[<mime_type>: <alt>]" when the part has
\* an alt value and to "[<mime_type>]" when it has none, joined in order with
\* one blank line between consecutive parts.
C18_RichTextAltPresent == RichTextRendered(PartTextAltPresent)

\* C18 amended: as stated, except that a multimedia part is mapped to
\* "[<mime_type>: <alt>]" only when its alt value is a non-empty string, and to
\* "[<mime_type>]" when it has no alt value or an empty one.
C18_RichTextAltNonEmpty == RichTextRendered(PartTextAltNonEmpty)

\* a tool response with a string, an image with alt, one without alt and one
\* with an empty alt was rendered to text in an OpenAI tool message
C18_Witness ==
    /\ OpenAIReturned
    /\ \E i \in 1..Len(InputMessages) :
          /\ InputMessages[i].speaker = "tool"
          /\ PartsOf(InputMessages[i]) = <<ResponseRich>>
          /\ OpenAISlice(i)[1].content =
                Str("4\n\n[image/png: tiny]\n\n[image/jpeg]\n\n[image/gif]")

\* what the renderer wrote, parsed
Parsed == json_loads(process.output)

\* C19: the dict format returns the whole envelope: messages is always
\* present, and each of schema, tools, runtime is present (with the renderer's
\* value) exactly when the renderer's result has it; for a bare message array
\* the result is {messages: <that array>} and nothing else.
C19_DictIsWholeEnvelope ==
    (/\ return_result # NoCall
     /\ process.returncode = 0
     /\ format = "dict")
    => /\ "returned" \in DOMAIN return_result
       /\ LET r == return_result.returned IN
          /\ "messages" \in DOMAIN r
          /\ IF IsList(Parsed)
             THEN /\ DOMAIN r = {"messages"}
                  /\ r.messages = Parsed
             ELSE /\ r.messages = Parsed.messages
                  /\ \A k \in {"schema", "tools", "runtime"} :
                        /\ k \in DOMAIN r <=> k \in DOMAIN Parsed
                        /\ k \in DOMAIN Parsed => r[k] = Parsed[k]

\* a dict result for a render with a schema and tools and without runtime
C19_Witness ==
    /\ Returned("dict")
    /\ ~IsList(Parsed)
    /\ {"schema", "tools"} \subseteq DOMAIN return_result.returned
    /\ return_result.returned.tools.list # <<>>
    /\ "runtime" \notin DOMAIN return_result.returned
    /\ "runtime" \notin DOMAIN Parsed

\* the envelope built again from the value the dict format returned
RebuiltFrame == PomlFrameOf(return_result.returned, chat)

\* the model of a content part holds what the wire part w holds
PartPreserved(w, part) ==
    IF IsStr(w) THEN part = w
    ELSE /\ part.type = w.type
         /\ \A k \in DOMAIN w \cap {"id", "name", "base64"} : part[k] = w[k]

\* the message model msg holds the speaker and the content of wire message w
MessagePreserved(w, msg) ==
    /\ msg.speaker = w.speaker
    /\ IF IsStr(w.content) THEN msg.content = w.content
       ELSE /\ IsList(msg.content)
            /\ Len(msg.content.list) = Len(w.content.list)
            /\ \A k \in 1..Len(w.content.list) :
                  PartPreserved(w.content.list[k], msg.content.list[k])

\* field k of the renderer's result, None when it has none
RenderedField(k) == IF k \in DOMAIN Envelope THEN Envelope[k] ELSE None

RuntimeNames ==
    IF "runtime" \in DOMAIN Envelope
    THEN [n \in 1..Len(Envelope.runtime.obj) |->
             Cat(camel_case_to_snake_case(Envelope.runtime.obj[n][1]))]
    ELSE <<>>

\* C28: in the OpenAIChat result messages, tools and response_format hold the
\* values derived from the envelope's messages, tool definitions and output
\* schema whatever keys the runtime mapping has: no runtime parameter replaces
\* them, and two distinct runtime keys never overwrite each other.
C28_RuntimeNeverOverwrites ==
    (Returned("openai_chat") /\ "runtime" \in DOMAIN Envelope) =>
        LET r == return_result.returned
            items == Envelope.runtime.obj
        IN /\ IsList(r.messages)
           /\ r.messages = poml_response_to_openai_chat(
                                PydanticMessages(InputMessages).list)
           /\ "tools" \in DOMAIN r => IsList(r.tools)
           /\ "response_format" \in DOMAIN r =>
                 r.response_format =
                    [type |-> "json_schema",
                     json_schema |-> [name |-> "schema", schema |-> Envelope.schema,
                                      strict |-> TRUE]]
           /\ \A m, n \in 1..Len(items) :
                 m # n => RuntimeNames[m] # RuntimeNames[n]

\* the serialized form of every root-level element built so far
BuiltXml(pretty) ==
    Join(IF pretty /\ built # <<>> THEN "\n" ELSE "",
         [k \in 1..Len(built) |-> XmlOf(elements, built[k])])

\* C26: a Prompt keeps what was built with it: after a `with prompt:` block
\* exits, and after the same Prompt is entered again, its root elements are all
\* the root-level elements built so far, and dump_xml and render see them.
C26_PromptKeepsElements ==
    /\ root_elements = built
    /\ prompt_call = "dump_xml" => prompt_result = [returned |-> BuiltXml(TRUE)]
    /\ (prompt_call = "render" /\ ~IsRaise(prompt_result)) =>
           prompt_result = [rendered |-> BuiltXml(FALSE)]

\* C27: render raises ValueError, and hands nothing to the renderer, whenever
\* the with block of some tag is open; render reaches the renderer only when
\* the stack of open tags is empty; text raises ValueError and changes nothing
\* when no tag is open.
C27_RenderAndTextGuarded ==
    [][ /\ (prompt_call' = "render" /\ open_blocks # <<>>) =>
              prompt_result' = Raise("ValueError", "Cannot render")
        /\ (prompt_call' = "render" /\ ~IsRaise(prompt_result')) =>
              current_parent_stack = <<>>
        /\ (prompt_call' = "text" /\ open_blocks = <<>>) =>
              /\ prompt_result' = Raise("ValueError", "Cannot add text")
              /\ UNCHANGED <<elements, root_elements, current_parent_stack>>
      ]_vars

\* C29: after every step current_parent_stack is the chain of the tags whose
\* with blocks are open, outermost first; a new tag becomes the last child of
\* the innermost open tag, or a new root element when none is open; an exit
\* that finds another element on top raises SystemError and leaves the stack
\* as it was.
C29_StackIsOpenChain ==
    [][ /\ current_parent_stack' = open_blocks'
        /\ prompt_call' = "tag" =>
              LET e == Len(elements') IN
              IF open_blocks = <<>>
              THEN root_elements' = Append(root_elements, e)
              ELSE LET parent == open_blocks[Len(open_blocks)] IN
                   /\ elements'[parent].children = Append(elements[parent].children, e)
                   /\ UNCHANGED root_elements
        /\ (/\ prompt_call' = "exit"
            /\ current_parent_stack # <<>>
            /\ current_parent_stack[Len(current_parent_stack)] # prompt_arg') =>
              /\ IsRaise(prompt_result')
              /\ prompt_result'.raise = "SystemError"
              /\ UNCHANGED current_parent_stack
      ]_vars

\* C21: a converter's output shares no state with the renderer's result:
\* when the caller changes the value that poml returned, what was recorded
\* for the call in the trace log stays as it was.
C21_ReturnedValueSharesNothing ==
    [][api_call' = "mutate" => trace_log' = trace_log]_vars

\* C22: between calls, get_trace() has one record for each poml call started
\* with tracing enabled since the last clear_trace, whether the call returned
\* or raised, and none for a call made with tracing disabled; a record has a
\* result entry only when its call returned.
C22_TraceLogCountsTracedCalls ==
    pc = "idle" =>
        /\ Len(get_trace.list) = Len(traced_calls)
        /\ \A i \in 1..Len(trace_log) :
              "result" \in DOMAIN trace_log[i] => traced_calls[i] = "returned"

\* two traced calls since the last clear_trace: the first returned, the second raised
C22_Witness ==
    /\ pc = "idle"
    /\ traced_calls = <<"returned", "raised">>
    /\ Len(trace_log) = 2

\* C23: trace_artifact, called with local tracing enabled after a poml call
\* of this process was traced into the current trace directory, writes and
\* returns the prefix of that call followed by a dot and the suffix; with
\* tracing disabled or no traced call of this process it writes nothing and
\* returns None; every log_poml_call made by a poml call is given the prefix
\* of that call.  This is to hold whatever other processes render meanwhile.
C23_ArtifactUsesOwnPrefix ==
    /\ (api_call = "trace_artifact" /\ api_arg[1] # ".") =>
           /\ (trace_enabled /\ own_prefix # None /\ trace_dir = Path(own_prefix.dir)) =>
                 api_result.returned =
                    [prefix |-> own_prefix, suffix |-> "." \o Cat(api_arg)]
           /\ (~trace_enabled \/ own_prefix = None) => api_result.returned = None
    /\ \A i \in 1..Len(backend_log) : backend_log[i].prefix = backend_log[i].own

\* C24: set_trace returns the trace directory whenever it leaves local tracing
\* enabled, and returns None exactly when it leaves local tracing disabled.
C24_SetTraceReturnsDirectory ==
    api_call = "set_trace" =>
        /\ trace_enabled => (api_result.returned # None /\ api_result.returned = trace_dir)
        /\ (api_result.returned = None) <=> ~trace_enabled

RequiresLocalTracing ==
    {Raise("RuntimeError", b \o " tracing requires local tracing to be enabled.") :
        b \in {"Weave", "AgentOps", "MLflow"}}

\* C25: an enabled backend implies that local tracing is enabled, and no poml
\* call raises a backend's 'requires local tracing to be enabled' RuntimeError.
C25_BackendsHaveLocalTracing ==
    /\ (weave_enabled \/ agentops_enabled \/ mlflow_enabled) => trace_enabled
    /\ return_result \notin RequiresLocalTracing

\* C30: between calls no temporary file of poml is open: every file created
\* for the markup, the context, the stylesheet and the output has been closed
\* when the call returned or raised.
C30_TempFilesClosed == pc = "idle" => temp_files = {}

\* a call that had staged its files has raised for a missing stylesheet file
C30_Witness ==
    /\ pc = "idle"
    /\ return_result = Raise("FileNotFoundError", "stylesheet")
    /\ temp_files = {}
====
